---- MODULE Spec2Model ----
(***************************************************************************)
(* Task manager: the Task table, the TaskRepository operations that run    *)
(* inside a caller's session, the /tasks HTTP handlers that call one       *)
(* repository operation each and commit, and the database module: the      *)
(* connection string, the global engine and the session of each request.   *)
(*                                                                         *)
(* An optional value is a sequence of length 0 (None / SQL NULL / JSON     *)
(* null) or 1 (the value).  A dict (a request body after                   *)
(* model_dump, a repository argument) is a function from the keys that are *)
(* present to optional values.  A timestamp is a reading of the clock.     *)
(***************************************************************************)
EXTENDS Integers, Sequences, FiniteSets, TLC

VARIABLES
    committed,  \* the rows of table "tasks" that committed transactions left
    seq,        \* last value handed out by the id sequence of the table
    now,        \* the reading datetime.utcnow() gives at this moment
    calls,      \* how many handlers and direct repository calls have run
    gone,       \* history: the ids whose DELETE was answered 204
    req,        \* per caller slot: its request, its session and transaction
    sessions,   \* the AsyncSession objects that are open
    env,        \* the process environment: DATABASE_URL and DB_URL
    engine,     \* database._engine: None or the engine and its url
    app         \* the application: "new", "up" after startup, or "failed"

vars == <<committed, seq, now, calls, gone, req, sessions, env, engine, app>>

\* ------------------------------------------------------------- bounds
MaxCalls == 3      \* handlers run and direct repository calls made in a run
MaxTime == 1       \* clock readings 0..MaxTime
Reqs == {"r1", "r2"}   \* callers that can be in flight at once

\* ---------------------------------------------------------- constants
MinTitleLen == 1
MaxTitleLen == 200
DefaultLimit == 100

None == <<>>
Some(v) == <<v>>

T200 == "xxxxxxxxxxxxxxxxxxxxxxxxxxxxxxxxxxxxxxxxxxxxxxxxxxxxxxxxxxxxxxxxxxxxxxxxxxxxxxxxxxxxxxxxxxxxxxxxxxxxxxxxxxxxxxxxxxxxxxxxxxxxxxxxxxxxxxxxxxxxxxxxxxxxxxxxxxxxxxxxxxxxxxxxxxxxxxxxxxxxxxxxxxxxxxxxxxxxxxxxxxxx"
T201 == "xxxxxxxxxxxxxxxxxxxxxxxxxxxxxxxxxxxxxxxxxxxxxxxxxxxxxxxxxxxxxxxxxxxxxxxxxxxxxxxxxxxxxxxxxxxxxxxxxxxxxxxxxxxxxxxxxxxxxxxxxxxxxxxxxxxxxxxxxxxxxxxxxxxxxxxxxxxxxxxxxxxxxxxxxxxxxxxxxxxxxxxxxxxxxxxxxxxxxxxxxxxxx"

\* Values a client may send for each field (JSON null is None).
TitleInputs == {None, Some(""), Some("a"), Some(T200), Some(T201)}
DescriptionInputs == {None, Some("d")}
CompletedInputs == {None, Some(TRUE), Some(FALSE)}
Fields == {"title", "description", "completed"}

FieldInputs(k) ==
    IF k = "title" THEN TitleInputs
    ELSE IF k = "description" THEN DescriptionInputs
    ELSE CompletedInputs

\* A JSON object over the three fields: the keys sent, each with its value.
Body(ks, t, d, c) ==
    [k \in ks |-> IF k = "title" THEN t ELSE IF k = "description" THEN d ELSE c]

\* The values to try for key k of a body with keys ks (one when k is not sent).
Choices(ks, k) == IF k \in ks THEN FieldInputs(k) ELSE {None}

\* Every JSON object a client may send.
Bodies ==
    UNION {{Body(ks, t, d, c) : t \in Choices(ks, "title"),
                                d \in Choices(ks, "description"),
                                c \in Choices(ks, "completed")} : ks \in SUBSET Fields}

\* Ids a caller may ask for: every id handed out so far and one never used.
TaskIds == 1..(seq + 1)

\* Offsets and limits to try against n rows: short of, at and beyond the end.
Skips(n) == 0..(n + 1)
Limits(n) == 0..(n + 1) \cup {DefaultLimit}

\* ------------------------------------------------------------ schemas
\* Field(min_length=1, max_length=200) on a title string.
TitleOK(s) == Len(s) >= MinTitleLen /\ Len(s) <= MaxTitleLen

\* TaskCreate: title required and constrained, description optional,
\* completed a bool defaulting to False.
TaskCreateValid(body) ==
    /\ "title" \in DOMAIN body
    /\ body["title"] # None
    /\ TitleOK(body["title"][1])
    /\ ("completed" \in DOMAIN body => body["completed"] # None)

\* TaskCreate(...).model_dump(): all three fields, defaults filled in.
TaskCreateDump(body) ==
    [k \in Fields |->
        IF k \in DOMAIN body THEN body[k]
        ELSE IF k = "completed" THEN Some(FALSE) ELSE None]

\* TaskUpdate: every field optional (None allowed); a title string is
\* constrained as in the base schema.
TaskUpdateValid(body) ==
    ("title" \in DOMAIN body /\ body["title"] # None) => TitleOK(body["title"][1])

\* A variant without exclude_unset: every field, None where not sent.
TaskUpdateDump_All(body) ==
    [k \in Fields |-> IF k \in DOMAIN body THEN body[k] ELSE None]

\* task_data.model_dump(exclude_unset=True): exactly the keys sent.
TaskUpdateDump(body) == body

\* The dicts a direct caller passes: validated input, as the handlers pass.
CreateData == {TaskCreateDump(b) : b \in {x \in Bodies : TaskCreateValid(x)}}
UpdateData == {TaskUpdateDump(b) : b \in {x \in Bodies : TaskUpdateValid(x) /\ DOMAIN x # {}}}

\* -------------------------------------------------------------- table
\* NOT NULL columns of table "tasks".
NotNullOK(task) == task.title # None /\ task.completed # None

\* A variant that stamps updated_at at creation.
NewTask_Stamped(data, id, t) ==
    [id |-> id,
     title |-> IF "title" \in DOMAIN data THEN data["title"] ELSE None,
     description |-> IF "description" \in DOMAIN data THEN data["description"] ELSE None,
     completed |-> IF "completed" \in DOMAIN data THEN data["completed"] ELSE Some(FALSE),
     created_at |-> t,
     updated_at |-> Some(t),
     touched |-> FALSE]

\* Task(**task_data) as flushed: id from the sequence, created_at from the
\* clock, updated_at NULL.  "touched" is a history mark, not a column: whether
\* an update ever succeeded on the row.
NewTask(data, id, t) ==
    [id |-> id,
     title |-> IF "title" \in DOMAIN data THEN data["title"] ELSE None,
     description |-> IF "description" \in DOMAIN data THEN data["description"] ELSE None,
     completed |-> IF "completed" \in DOMAIN data THEN data["completed"] ELSE Some(FALSE),
     created_at |-> t,
     updated_at |-> None,
     touched |-> FALSE]

\* A variant that assigns every column, None where the dict has no key.
SetAttrs_AllFields(task, data) ==
    [task EXCEPT
        !.title = IF "title" \in DOMAIN data THEN data["title"] ELSE None,
        !.description = IF "description" \in DOMAIN data THEN data["description"] ELSE None,
        !.completed = IF "completed" \in DOMAIN data THEN data["completed"] ELSE @]

\* for key, value in data.items(): setattr(task, key, value)
SetAttrs(task, data) ==
    [task EXCEPT
        !.title = IF "title" \in DOMAIN data THEN data["title"] ELSE @,
        !.description = IF "description" \in DOMAIN data THEN data["description"] ELSE @,
        !.completed = IF "completed" \in DOMAIN data THEN data["completed"] ELSE @]

\* A variant that only stamps a row that has a timestamp already.
Stamp_IfStamped(task, t) ==
    IF task.updated_at = None THEN task ELSE [task EXCEPT !.updated_at = Some(t)]

\* task.updated_at = datetime.utcnow()
Stamp(task, t) == [task EXCEPT !.updated_at = Some(t)]

\* History: an update succeeded on the row.
Touched(task) == [task EXCEPT !.touched = TRUE]

\* ------------------------------------------------------------ session
\* A transaction is the rows it wrote (inserted or updated) and the ids it
\* deleted; nothing of it is in `committed` until the commit.
EmptyTx == [ins |-> {}, del |-> {}]

Ids(rows) == {x.id : x \in rows}

\* What a statement of the transaction sees: the committed rows, overlaid
\* with the transaction's own writes.
View(c, tx) == {x \in c : x.id \notin tx.del \cup Ids(tx.ins)} \cup tx.ins

\* Rows another open transaction has written are locked until it ends.
LockedByOther(r, id) ==
    \E q \in Reqs \ {r} : id \in Ids(req[q].tx.ins) \cup req[q].tx.del

\* session.get(Task, task_id)
SessionGet(rows, task_id) ==
    IF \E x \in rows : x.id = task_id
    THEN Some(CHOOSE x \in rows : x.id = task_id)
    ELSE None

\* order_by(Task.id): the rows in ascending id order, by halving the range
\* of ids (rows of one id, which a primary key excludes, in any order).
RECURSIVE SortById(_)
SortById(rows) ==
    IF rows = {} THEN <<>>
    ELSE LET lo == CHOOSE i \in Ids(rows) : \A j \in Ids(rows) : i <= j
             hi == CHOOSE i \in Ids(rows) : \A j \in Ids(rows) : i >= j
             mid == (lo + hi) \div 2
         IN IF lo = hi
            THEN LET x == CHOOSE y \in rows : TRUE
                 IN <<x>> \o SortById(rows \ {x})
            ELSE SortById({x \in rows : x.id <= mid})
                     \o SortById({x \in rows : x.id > mid})

Min(a, b) == IF a < b THEN a ELSE b

\* A variant that applies the limit before the offset.
SelectPage_LimitFirst(rows, skip, limit) ==
    LET all == SortById(rows)
        head == SubSeq(all, 1, Min(Len(all), limit))
    IN SubSeq(head, skip + 1, Len(head))

\* select(Task).offset(skip).limit(limit).order_by(Task.id)
SelectPage(rows, skip, limit) ==
    LET all == SortById(rows)
    IN SubSeq(all, skip + 1, Min(Len(all), skip + limit))

\* --------------------------------------------------------- repository
\* Each operation gives [ret, ok, num, tx, raised]: the value returned (a
\* sequence of tasks: empty for None), delete's bool, count's int, the
\* transaction afterwards, and whether the flush raised.
Result(ret, ok, num, tx, raised) ==
    [ret |-> ret, ok |-> ok, num |-> num, tx |-> tx, raised |-> raised]

repo_create(c, tx, task_data, id, t) ==
    LET task == NewTask(task_data, id, t)
    IN IF NotNullOK(task)
       THEN Result(Some(task), TRUE, 0, [tx EXCEPT !.ins = @ \cup {task}], FALSE)
       ELSE Result(None, FALSE, 0, EmptyTx, TRUE)

repo_get(c, tx, task_id) ==
    Result(SessionGet(View(c, tx), task_id), TRUE, 0, tx, FALSE)

repo_get_all(c, tx, skip, limit) ==
    Result(SelectPage(View(c, tx), skip, limit), TRUE, 0, tx, FALSE)

\* A variant that raises when the row is not there.
repo_update_Raising(c, tx, task_id, data, t) ==
    LET found == SessionGet(View(c, tx), task_id)
    IN IF found = None
       THEN Result(None, FALSE, 0, EmptyTx, TRUE)
       ELSE LET task == Stamp(SetAttrs(found[1], data), t)
            IN IF NotNullOK(task)
               THEN Result(Some(Touched(task)), TRUE, 0,
                           [tx EXCEPT !.ins = {x \in @ : x.id # task_id}
                                                \cup {Touched(task)}],
                           FALSE)
               ELSE Result(None, FALSE, 0, EmptyTx, TRUE)

repo_update(c, tx, task_id, data, t) ==
    LET found == SessionGet(View(c, tx), task_id)
    IN IF found = None
       THEN Result(None, FALSE, 0, tx, FALSE)
       ELSE LET task == Stamp(SetAttrs(found[1], data), t)
            IN IF NotNullOK(task)
               THEN Result(Some(Touched(task)), TRUE, 0,
                           [tx EXCEPT !.ins = {x \in @ : x.id # task_id}
                                                \cup {Touched(task)}],
                           FALSE)
               ELSE Result(None, FALSE, 0, EmptyTx, TRUE)

\* A variant that reports success without deleting the row.
repo_delete_Unstaged(c, tx, task_id) ==
    LET found == SessionGet(View(c, tx), task_id)
    IN IF found = None
       THEN Result(None, FALSE, 0, tx, FALSE)
       ELSE Result(None, TRUE, 0, tx, FALSE)

repo_delete(c, tx, task_id) ==
    LET found == SessionGet(View(c, tx), task_id)
    IN IF found = None
       THEN Result(None, FALSE, 0, tx, FALSE)
       ELSE Result(None, TRUE, 0,
                   [ins |-> {x \in tx.ins : x.id # task_id},
                    del |-> tx.del \cup {task_id}],
                   FALSE)

\* A variant that counts the committed rows only.
repo_count_Committed(c, tx) ==
    Result(None, TRUE, Cardinality(c), tx, FALSE)

repo_count(c, tx) ==
    Result(None, TRUE, Cardinality(View(c, tx)), tx, FALSE)


\* ----------------------------------------------------------- handlers
\* A variant whose message leaves the id out.
NotFoundDetail_NoId(task_id) == <<"Task not found">>

\* detail=f"Task {task_id} not found"
NotFoundDetail(task_id) == <<"Task ", task_id, " not found">>
NoFieldsDetail == <<"No fields to update">>
NoDetail == <<>>

\* A variant that leaves the description out of the response.
TaskRead_NoDescription(task) ==
    [id |-> task.id, title |-> task.title, description |-> None,
     completed |-> task.completed, created_at |-> task.created_at,
     updated_at |-> task.updated_at]

\* response_model=TaskRead: the columns of the row.
TaskRead(task) ==
    [id |-> task.id, title |-> task.title, description |-> task.description,
     completed |-> task.completed, created_at |-> task.created_at,
     updated_at |-> task.updated_at]

ReadAll(tasks) == [i \in 1..Len(tasks) |-> TaskRead(tasks[i])]

\* What a handler comes to: the status and detail or body it answers with,
\* the transaction it leaves in its session, the repository calls it made,
\* and whether it goes on to "await session.commit()" before answering.
Response(status, detail, body, tx, nops, commit) ==
    [status |-> status, detail |-> detail, body |-> body, tx |-> tx,
     nops |-> nops, commit |-> commit]

\* A variant that takes the body as it comes.
create_task_Unvalidated(c, tx, body, id, t) ==
    LET res == repo_create(c, tx, TaskCreateDump(body), id, t)
    IN IF res.raised THEN Response(500, NoDetail, None, res.tx, 1, FALSE)
       ELSE Response(201, NoDetail, ReadAll(res.ret), res.tx, 1, TRUE)

\* POST /tasks/ with the id the sequence gives next.
create_task(c, tx, body, id, t) ==
    IF ~TaskCreateValid(body) THEN Response(422, NoDetail, None, tx, 0, FALSE)
    ELSE LET res == repo_create(c, tx, TaskCreateDump(body), id, t)
         IN IF res.raised THEN Response(500, NoDetail, None, res.tx, 1, FALSE)
            ELSE Response(201, NoDetail, ReadAll(res.ret), res.tx, 1, TRUE)

\* GET /tasks/?skip=&limit=
list_tasks(c, tx, skip, limit) ==
    LET res == repo_get_all(c, tx, skip, limit)
    IN Response(200, NoDetail, ReadAll(res.ret), res.tx, 1, FALSE)

\* GET /tasks/{task_id}
get_task(c, tx, task_id) ==
    LET res == repo_get(c, tx, task_id)
    IN IF res.ret = None
       THEN Response(404, NotFoundDetail(task_id), None, res.tx, 1, FALSE)
       ELSE Response(200, NoDetail, ReadAll(res.ret), res.tx, 1, FALSE)

\* PATCH /tasks/{task_id}
update_task(c, tx, task_id, body, t) ==
    IF ~TaskUpdateValid(body) THEN Response(422, NoDetail, None, tx, 0, FALSE)
    ELSE LET update_data == TaskUpdateDump(body)
         IN IF DOMAIN update_data = {}
            THEN Response(400, NoFieldsDetail, None, tx, 0, FALSE)
            ELSE LET res == repo_update(c, tx, task_id, update_data, t)
                 IN IF res.raised THEN Response(500, NoDetail, None, res.tx, 1, FALSE)
                    ELSE IF res.ret = None
                    THEN Response(404, NotFoundDetail(task_id), None, res.tx, 1, FALSE)
                    ELSE Response(200, NoDetail, ReadAll(res.ret), res.tx, 1, TRUE)

\* A variant that commits whatever the repository returned.
delete_task_AlwaysCommits(c, tx, task_id) ==
    LET res == repo_delete(c, tx, task_id)
    IN IF ~res.ok
       THEN Response(404, NotFoundDetail(task_id), None, res.tx, 1, TRUE)
       ELSE Response(204, NoDetail, None, res.tx, 1, TRUE)

\* DELETE /tasks/{task_id}
delete_task(c, tx, task_id) ==
    LET res == repo_delete(c, tx, task_id)
    IN IF ~res.ok
       THEN Response(404, NotFoundDetail(task_id), None, res.tx, 1, FALSE)
       ELSE Response(204, NoDetail, None, res.tx, 1, TRUE)

\* A variant that adds the written rows beside the rows they replace.
SessionCommit_Appending(c, tx) == {x \in c : x.id \notin tx.del} \cup tx.ins

\* await session.commit(): the transaction's writes become the table's.
SessionCommit(c, tx) == View(c, tx)

\* A variant that commits what is pending when the session is closed.
SessionClose_Committing(c, tx) == View(c, tx)

\* The session is closed (the "async with" of get_session ends, or the
\* fixture rolls back): what the transaction holds is dropped.
SessionClose(c, tx) == c

\* ----------------------------------------------------------- database
\* A connection string is the sequence of its pieces: the scheme, the
\* authority and path, and then separators ("?", "&"), parameter names with
\* their "=" and parameter values.  The empty string is the empty sequence.
StartsWith(url, piece) == Len(url) > 0 /\ url[1] = piece

\* piece in url
Contains(url, piece) == \E i \in 1..Len(url) : url[i] = piece

\* url.replace(old, new, 1)
ReplaceFirst(url, old, new) ==
    LET at == CHOOSE i \in 1..Len(url) : url[i] = old /\ \A j \in 1..(i - 1) : url[j] # old
    IN [url EXCEPT ![at] = new]

\* url.replace(old, new)
ReplaceAll(url, old, new) ==
    [i \in 1..Len(url) |-> IF url[i] = old THEN new ELSE url[i]]

\* [^&]* : what is left of url after the longest run without "&".
RECURSIVE SkipToAmp(_)
SkipToAmp(url) ==
    IF url = <<>> \/ url[1] = "&" THEN url ELSE SkipToAmp(Tail(url))

\* re.sub(r'[&?]channel_binding=[^&]*', '', url)
RECURSIVE SubChannelBinding(_)
SubChannelBinding(url) ==
    IF url = <<>> THEN <<>>
    ELSE IF Len(url) >= 2 /\ url[1] \in {"&", "?"} /\ url[2] = "channel_binding="
    THEN SubChannelBinding(SkipToAmp(Tail(Tail(url))))
    ELSE <<url[1]>> \o SubChannelBinding(Tail(url))

\* A value Python takes as true: a string that is set and not empty.
Truthy(v) == v # None /\ v[1] # <<>>

\* DatabaseConfig(): [raised, url].
DatabaseConfig(e) ==
    LET found == IF Truthy(e.DATABASE_URL) THEN e.DATABASE_URL ELSE e.DB_URL
    IN IF ~Truthy(found) THEN [raised |-> TRUE, url |-> <<>>]
       ELSE LET url0 == found[1]
                url1 == IF StartsWith(url0, "postgresql://")
                        THEN ReplaceFirst(url0, "postgresql://", "postgresql+asyncpg://")
                        ELSE url0
                url2 == IF Contains(url1, "sslmode=")
                        THEN ReplaceAll(url1, "sslmode=", "ssl=")
                        ELSE url1
                url3 == IF Contains(url2, "channel_binding=")
                        THEN SubChannelBinding(url2)
                        ELSE url2
            IN [raised |-> FALSE, url |-> url3]

\* init_db(): [raised, engine], engine being the value of the global after.
init_db(e, eng) ==
    LET config == DatabaseConfig(e)
    IN IF config.raised THEN [raised |-> TRUE, engine |-> eng]
       ELSE [raised |-> FALSE, engine |-> Some(config.url)]

\* get_engine(): [raised, engine].
get_engine(eng) == [raised |-> eng = None, engine |-> eng]

\* A variant that hands every request one session kept for all.
FreshSession_Shared(ss) == 1

\* AsyncSession(_engine, expire_on_commit=False): an object none in use is.
FreshSession(ss) ==
    CHOOSE s \in 1..(Cardinality(ss) + 1) :
        s \notin ss /\ \A t \in 1..(s - 1) : t \in ss

\* A variant that does not look at the engine.
get_session_Unchecked(eng, ss) ==
    [raised |-> FALSE, session |-> FreshSession(ss),
     sessions |-> ss \cup {FreshSession(ss)}]

\* get_session() up to its yield: [raised, session, sessions].
get_session(eng, ss) ==
    IF eng = None THEN [raised |-> TRUE, session |-> 0, sessions |-> ss]
    ELSE LET s == FreshSession(ss)
         IN [raised |-> FALSE, session |-> s, sessions |-> ss \cup {s}]

\* The end of "async with AsyncSession(...) as session".
CloseSession(ss, s) == ss \ {s}

\* The url of a deployment, and the environments the app is started in.
DeployUrl ==
    <<"postgresql://", "u:p@host/db", "?", "sslmode=", "require",
      "&", "channel_binding=", "require">>
DeployEnvs ==
    {[DATABASE_URL |-> None, DB_URL |-> None],
     [DATABASE_URL |-> Some(DeployUrl), DB_URL |-> None]}

\* ------------------------------------------------------------ callers
\* A caller slot: where its request is, the session it holds and that
\* session's transaction, and what the request was and came to.
Idle ==
    [phase |-> "idle", open |-> FALSE, sid |-> 0, tx |-> EmptyTx, kind |-> "", id |-> 0,
     status |-> 0, nbody |-> 0, nops |-> 0, ncommits |-> 0]

Init ==
    /\ committed = {}
    /\ seq = 0
    /\ now = 0
    /\ calls = 0
    /\ gone = {}
    /\ req = [r \in Reqs |-> Idle]
    /\ sessions = {}
    /\ env \in DeployEnvs
    /\ engine = None
    /\ app = "new"

\* lifespan() up to its yield: init_db(), then create_all on the engine.
Startup ==
    /\ app = "new"
    /\ LET res == init_db(env, engine)
       IN /\ engine' = res.engine
          /\ app' = IF res.raised THEN "failed" ELSE "up"
    /\ UNCHANGED <<committed, seq, now, calls, gone, req, sessions, env>>

\* Time passes.
Tick ==
    /\ now < MaxTime
    /\ now' = now + 1
    /\ UNCHANGED <<committed, seq, calls, gone, req, sessions, env, engine, app>>

\* A request arrives and get_session gives it a fresh AsyncSession.
BeginRequest(r) ==
    /\ req[r].phase = "idle"
    /\ app \in {"new", "up"}
    /\ calls < MaxCalls
    /\ LET got == get_session(engine, sessions)
       IN /\ ~got.raised
          /\ sessions' = got.sessions
          /\ req' = [req EXCEPT ![r] = [Idle EXCEPT !.phase = "ready", !.open = TRUE,
                                                     !.sid = got.session]]
    /\ UNCHANGED <<committed, seq, now, calls, gone, env, engine, app>>

\* A request is dispatched (with or without the lifespan having run, as the
\* tests' ASGI transport does) and get_session raises: it is answered 500
\* and no handler runs.
RefuseRequest(r) ==
    /\ req[r].phase = "idle"
    /\ app \in {"new", "up"}
    /\ calls < MaxCalls
    /\ get_session(engine, sessions).raised
    /\ req' = [req EXCEPT ![r] = [Idle EXCEPT !.phase = "respond", !.kind = "REFUSED",
                                               !.status = 500]]
    /\ UNCHANGED <<committed, seq, now, calls, gone, sessions, env, engine, app>>

\* The handler of the request ran and came to `out`.
Handled(r, kind, task_id, out) ==
    /\ req[r].phase = "ready"
    /\ calls < MaxCalls
    /\ calls' = calls + 1
    /\ req' = [req EXCEPT ![r] =
                  [@ EXCEPT !.phase = IF out.commit THEN "commit" ELSE "respond",
                            !.kind = kind, !.id = task_id, !.status = out.status,
                            !.nbody = Len(out.body),
                            !.tx = out.tx, !.nops = @ + out.nops]]

CreateTask(r, body) ==
    /\ LET out == create_task(committed, req[r].tx, body, seq + 1, now)
       IN /\ Handled(r, "POST", 0, out)
          /\ seq' = seq + out.nops
    /\ UNCHANGED <<committed, now, gone, sessions, env, engine, app>>

ListTasks(r, skip, limit) ==
    /\ Handled(r, "LIST", 0, list_tasks(committed, req[r].tx, skip, limit))
    /\ UNCHANGED <<committed, seq, now, gone, sessions, env, engine, app>>

GetTask(r, task_id) ==
    /\ Handled(r, "GET", task_id, get_task(committed, req[r].tx, task_id))
    /\ UNCHANGED <<committed, seq, now, gone, sessions, env, engine, app>>

UpdateTask(r, task_id, body) ==
    /\ ~LockedByOther(r, task_id)
    /\ Handled(r, "PATCH", task_id,
               update_task(committed, req[r].tx, task_id, body, now))
    /\ UNCHANGED <<committed, seq, now, gone, sessions, env, engine, app>>

DeleteTask(r, task_id) ==
    /\ ~LockedByOther(r, task_id)
    /\ Handled(r, "DELETE", task_id, delete_task(committed, req[r].tx, task_id))
    /\ UNCHANGED <<committed, seq, now, gone, sessions, env, engine, app>>

\* The handler's "await session.commit()", after which it returns.
Commit(r) ==
    /\ req[r].phase = "commit"
    /\ committed' = SessionCommit(committed, req[r].tx)
    /\ gone' = IF req[r].kind = "DELETE" THEN gone \cup {req[r].id} ELSE gone
    /\ req' = [req EXCEPT ![r] = [@ EXCEPT !.phase = "respond", !.tx = EmptyTx,
                                            !.ncommits = @ + 1]]
    /\ UNCHANGED <<seq, now, calls, sessions, env, engine, app>>

\* The response is sent and the request's session is closed.
EndRequest(r) ==
    /\ req[r].phase = "respond"
    /\ committed' = SessionClose(committed, req[r].tx)
    /\ sessions' = IF req[r].open THEN CloseSession(sessions, req[r].sid) ELSE sessions
    /\ req' = [req EXCEPT ![r] = Idle]
    /\ UNCHANGED <<seq, now, calls, gone, env, engine, app>>

\* A caller that uses the repository directly in a session of its own (the
\* "session" fixture of the tests): any calls, then a rollback.  Such callers
\* are followed beside a running application.
BeginSession(r) ==
    /\ req[r].phase = "idle"
    /\ app = "up"
    /\ calls < MaxCalls
    /\ sessions' = sessions \cup {FreshSession(sessions)}
    /\ req' = [req EXCEPT ![r] = [Idle EXCEPT !.phase = "repo", !.open = TRUE,
                                               !.sid = FreshSession(sessions),
                                               !.kind = "REPO"]]
    /\ UNCHANGED <<committed, seq, now, calls, gone, env, engine, app>>

\* The caller's record after repository call `op` gave `res`.
Called(r, op, res) ==
    /\ req[r].phase = "repo"
    /\ calls < MaxCalls
    /\ calls' = calls + 1
    /\ req' = [req EXCEPT ![r] =
                  [@ EXCEPT !.phase = IF res.raised THEN "failed" ELSE "repo",
                            !.kind = op, !.tx = res.tx]]

RepoCreate(r, data) ==
    /\ Called(r, "create", repo_create(committed, req[r].tx, data, seq + 1, now))
    /\ seq' = seq + 1
    /\ UNCHANGED <<committed, now, gone, sessions, env, engine, app>>

RepoGet(r, task_id) ==
    /\ Called(r, "get", repo_get(committed, req[r].tx, task_id))
    /\ UNCHANGED <<committed, seq, now, gone, sessions, env, engine, app>>

RepoGetAll(r, skip, limit) ==
    /\ Called(r, "get_all", repo_get_all(committed, req[r].tx, skip, limit))
    /\ UNCHANGED <<committed, seq, now, gone, sessions, env, engine, app>>

RepoUpdate(r, task_id, data) ==
    /\ ~LockedByOther(r, task_id)
    /\ Called(r, "update",
              repo_update(committed, req[r].tx, task_id, data, now))
    /\ UNCHANGED <<committed, seq, now, gone, sessions, env, engine, app>>

RepoDelete(r, task_id) ==
    /\ ~LockedByOther(r, task_id)
    /\ Called(r, "delete", repo_delete(committed, req[r].tx, task_id))
    /\ UNCHANGED <<committed, seq, now, gone, sessions, env, engine, app>>

RepoCount(r) ==
    /\ Called(r, "count", repo_count(committed, req[r].tx))
    /\ UNCHANGED <<committed, seq, now, gone, sessions, env, engine, app>>

\* await test_session.rollback() and the end of the fixture's "async with".
EndSession(r) ==
    /\ req[r].phase \in {"repo", "failed"}
    /\ committed' = SessionClose(committed, req[r].tx)
    /\ sessions' = CloseSession(sessions, req[r].sid)
    /\ req' = [req EXCEPT ![r] = Idle]
    /\ UNCHANGED <<seq, now, calls, gone, env, engine, app>>

\* The callers of Spec: one at a time.
Callers == {"r1"}

\* The rows a caller sees now.
Seen(r) == View(committed, req[r].tx)

\* The request a client sends: any body over the three fields, any id,
\* any offset and limit.
Request(r) ==
    /\ req[r].phase = "ready"
    /\ \/ \E body \in Bodies : CreateTask(r, body)
       \/ \E body \in Bodies, id \in TaskIds : UpdateTask(r, id, body)
       \/ \E skip \in Skips(Cardinality(Seen(r))), limit \in Limits(Cardinality(Seen(r))) :
              ListTasks(r, skip, limit)
       \/ \E id \in TaskIds : GetTask(r, id)
       \/ \E id \in TaskIds : DeleteTask(r, id)

\* The call a direct caller makes: the repository assumes validated input.
Call(r) ==
    /\ req[r].phase = "repo"
    /\ \/ \E data \in CreateData : RepoCreate(r, data)
       \/ \E data \in UpdateData, id \in TaskIds : RepoUpdate(r, id, data)
       \/ \E skip \in Skips(Cardinality(Seen(r))), limit \in Limits(Cardinality(Seen(r))) :
              RepoGetAll(r, skip, limit)
       \/ \E id \in TaskIds : RepoGet(r, id)
       \/ \E id \in TaskIds : RepoDelete(r, id)
       \/ RepoCount(r)

Next ==
    \/ Tick
    \/ Startup
    \/ \E r \in Callers :
          \/ BeginRequest(r)
          \/ RefuseRequest(r)
          \/ Request(r)
          \/ Commit(r)
          \/ EndRequest(r)
          \/ BeginSession(r)
          \/ Call(r)
          \/ EndSession(r)

Spec == Init /\ [][Next]_vars

\* ============================================================== claims
\* A caller whose handler is about to run.
Ready(r) == req[r].phase = "ready"

\* A caller that can call the repository in its session now.
InSession(r) == req[r].phase \in {"ready", "repo"}

\* The ids a caller may ask for that no row it sees has.
Absent(r) == TaskIds \ Ids(Seen(r))

\* The bodies that pass TaskUpdate's validation, and those that also name a field.
ValidUpdates == {b \in Bodies : TaskUpdateValid(b)}
NamingUpdates == {b \in ValidUpdates : DOMAIN b # {}}

\* A 404 whose detail message has the requested id in it.
NotFound(out, task_id) ==
    out.status = 404 /\ Len(out.detail) = 3 /\ out.detail[2] = task_id

\* C1 (as amended): for every id not in storage, GET, DELETE and every PATCH
\* whose valid body names at least one field answer 404 with the id in the
\* detail message.
C1_NotFound404 ==
    \A r \in Reqs : Ready(r) =>
        \A id \in Absent(r) :
            /\ NotFound(get_task(committed, req[r].tx, id), id)
            /\ NotFound(delete_task(committed, req[r].tx, id), id)
            /\ \A b \in NamingUpdates :
                   NotFound(update_task(committed, req[r].tx, id, b, now), id)

\* C1 as stated: every PATCH of an id that is not in storage is answered 404
\* unless its body failed validation (422).
C1_AnyValidBody404 ==
    \A r \in Reqs :
        (req[r].phase = "respond" /\ req[r].kind = "PATCH" /\ req[r].id > seq
            /\ req[r].status # 422) => req[r].status = 404

\* A PATCH of an id that was never handed out has been answered 404.
C1_Witness ==
    \E r \in Reqs :
        /\ req[r].phase = "respond" /\ req[r].kind = "PATCH"
        /\ req[r].status = 404 /\ req[r].id > seq

\* A step of caller r.
StepOf(r) == req'[r] # req[r]

\* C2: a PATCH whose body names no field answers 400 "No fields to update"
\* for any id, calls no repository operation, and storage stays as it was.
C2_EmptyUpdate400 ==
    [][/\ \A r \in Reqs : Ready(r) =>
            \A id \in TaskIds :
                LET out == update_task(committed, req[r].tx, id, <<>>, now)
                IN /\ out.status = 400 /\ out.detail = <<"No fields to update">>
                   /\ out.nops = 0 /\ out.tx = req[r].tx /\ ~out.commit
       /\ \A r \in Reqs :
            (StepOf(r) /\ (req[r].status = 400 \/ req'[r].status = 400)) =>
                /\ committed' = committed
                /\ req'[r].tx = EmptyTx /\ req'[r].nops = 0 /\ req'[r].ncommits = 0
      ]_vars

\* An empty PATCH of a stored task has been answered 400.
C2_Witness ==
    \E r \in Reqs :
        /\ req[r].phase = "respond" /\ req[r].kind = "PATCH"
        /\ req[r].status = 400 /\ req[r].id \in Ids(committed)

\* The row with this id among rows.
RowOf(rows, id) == CHOOSE x \in rows : x.id = id

\* The value a row has in the column a body key names.
Column(task, k) ==
    IF k = "title" THEN task.title
    ELSE IF k = "description" THEN task.description
    ELSE task.completed

\* The step in which caller r's handler commits.
Commits(r) == req[r].phase = "commit" /\ req'[r].phase = "respond"

\* C3: a successful update gives exactly the named fields the supplied
\* values and sets updated_at to the current time; id, created_at and the
\* fields not named keep their values and every other stored task is as it
\* was, in the session and, once committed, in the table.
C3_UpdateFrame ==
    /\ [](\A r \in Reqs : InSession(r) =>
            \A id \in Ids(Seen(r)) : \A b \in NamingUpdates :
                LET res == repo_update(committed, req[r].tx, id, b, now)
                    old == RowOf(Seen(r), id)
                IN res.ret # None =>
                    LET new == res.ret[1]
                    IN /\ \A k \in DOMAIN b : Column(new, k) = b[k]
                       /\ \A k \in Fields \ DOMAIN b : Column(new, k) = Column(old, k)
                       /\ new.id = old.id /\ new.created_at = old.created_at
                       /\ new.updated_at = Some(now)
                       /\ View(committed, res.tx) = (Seen(r) \ {old}) \cup {new}
                       /\ (Ready(r) =>
                             LET out == update_task(committed, req[r].tx, id, b, now)
                             IN out.status = 200 /\ out.body = <<TaskRead(new)>>))
    /\ [][\A r \in Reqs : (Commits(r) /\ req[r].kind = "PATCH") =>
            \E new \in req[r].tx.ins :
                /\ new.id = req[r].id /\ new.id \in Ids(committed)
                /\ committed' = {x \in committed : x.id # new.id} \cup {new}
        ]_vars

\* A PATCH of one of two stored tasks has been committed and answered 200.
C3_Witness ==
    \E r \in Reqs :
        /\ req[r].phase = "respond" /\ req[r].kind = "PATCH" /\ req[r].status = 200
        /\ req[r].ncommits = 1 /\ Cardinality(committed) >= 2
        /\ \E x \in committed : x.id = req[r].id /\ x.updated_at # None

\* Every row there is: committed, or written by a transaction still open.
AllRows == committed \cup UNION {req[r].tx.ins : r \in Reqs}

\* C4: a stored task has updated_at null exactly when no update has
\* succeeded on it since it was created.
C4_UpdatedAtNullIffNeverUpdated ==
    \A x \in AllRows : (x.updated_at = None) <=> ~x.touched

\* A task updated with the values it already had, next to one never updated.
C4_Witness ==
    /\ \E x \in committed : x.touched /\ x.updated_at # None
          /\ x.title = Some("a") /\ x.description = None /\ x.completed = Some(FALSE)
          /\ gone = {} /\ seq = 2 /\ calls = 3
    /\ \E x \in committed : ~x.touched /\ x.updated_at = None

\* C5: for every valid Create payload the task returned has the next id of
\* the sequence (held by no stored task), created_at set to the current
\* time, updated_at null, and the payload's title, description and completed
\* (null and false when omitted); POST answers 201 with it; storage gains
\* exactly that task, in the session and, once committed, in the table.
C5_Create ==
    /\ [](\A r \in Reqs : InSession(r) =>
            \A b \in Bodies : TaskCreateValid(b) =>
                LET res == repo_create(committed, req[r].tx, TaskCreateDump(b), seq + 1, now)
                IN /\ res.ret # None /\ ~res.raised
                   /\ LET new == res.ret[1]
                      IN /\ new.id = seq + 1 /\ new.id \notin Ids(Seen(r))
                         /\ new.created_at = now /\ new.updated_at = None
                         /\ new.title = b["title"]
                         /\ new.description =
                               (IF "description" \in DOMAIN b THEN b["description"] ELSE None)
                         /\ new.completed =
                               (IF "completed" \in DOMAIN b THEN b["completed"] ELSE Some(FALSE))
                         /\ View(committed, res.tx) = Seen(r) \cup {new}
                         /\ (Ready(r) =>
                               LET out == create_task(committed, req[r].tx, b, seq + 1, now)
                               IN out.status = 201 /\ out.body = <<TaskRead(new)>>))
    /\ [][\A r \in Reqs : (Commits(r) /\ req[r].kind = "POST") =>
            \E new \in req[r].tx.ins :
                /\ new.id \notin Ids(committed)
                /\ committed' = committed \cup {new}
        ]_vars

\* A POST has been committed and answered 201 beside an older task.
C5_Witness ==
    \E r \in Reqs :
        /\ req[r].phase = "respond" /\ req[r].kind = "POST" /\ req[r].status = 201
        /\ req[r].ncommits = 1 /\ Cardinality(committed) = 2
        /\ \E x \in committed : x.id = seq /\ x.updated_at = None /\ x.description = None

Max(a, b) == IF a > b THEN a ELSE b

\* The rows of `rows` with an id below that of x.
Before(rows, x) == {y \in rows : y.id < x.id}

\* C6: get_all(skip, limit) returns the stored tasks at positions skip+1 ..
\* skip+limit of all stored tasks in ascending id order: at most limit of
\* them, each preceded by exactly the tasks of smaller id, and the empty
\* list, without an error, when nothing is stored or skip is at or beyond the
\* number stored; GET /tasks/ answers 200 with that list.
C6_Pagination ==
    [](\A r \in Reqs : InSession(r) =>
           LET n == Cardinality(Seen(r))
           IN \A skip \in Skips(n), limit \in Limits(n) :
               LET res == repo_get_all(committed, req[r].tx, skip, limit)
                   page == res.ret
               IN /\ ~res.raised /\ res.tx = req[r].tx
                  /\ Len(page) = Max(0, Min(limit, n - skip))
                  /\ \A i \in 1..Len(page) :
                        /\ page[i] \in Seen(r)
                        /\ Cardinality(Before(Seen(r), page[i])) = skip + i - 1
                  /\ ((n = 0 \/ skip >= n) => page = <<>>)
                  /\ (Ready(r) =>
                        LET out == list_tasks(committed, req[r].tx, skip, limit)
                        IN out.status = 200 /\ out.body = ReadAll(page)))

\* A listing of two stored tasks has answered 200 with one task.
C6_Witness ==
    \E r \in Reqs :
        /\ req[r].phase = "respond" /\ req[r].kind = "LIST" /\ req[r].status = 200
        /\ Cardinality(committed) = 2 /\ req[r].nbody = 1

\* C7: create, update and delete change only the caller's transaction: what
\* they wrote is what a later get in the same session returns, the table
\* changes only in a step that commits, and a session closed or rolled back
\* leaves the table as it was.
C7_RepositoryNeverCommits ==
    /\ [](\A r \in Reqs : InSession(r) =>
            /\ \A data \in CreateData :
                  LET res == repo_create(committed, req[r].tx, data, seq + 1, now)
                  IN /\ repo_get(committed, res.tx, seq + 1).ret = res.ret
                     /\ SessionClose(committed, res.tx) = committed
            /\ \A id \in Ids(Seen(r)) :
                  /\ \A data \in UpdateData :
                        LET res == repo_update(committed, req[r].tx, id, data, now)
                        IN /\ (~res.raised => repo_get(committed, res.tx, id).ret = res.ret)
                           /\ SessionClose(committed, res.tx) = committed
                  /\ LET res == repo_delete(committed, req[r].tx, id)
                     IN /\ res.ok /\ repo_get(committed, res.tx, id).ret = None
                        /\ SessionClose(committed, res.tx) = committed)
    /\ [][/\ (committed' # committed => \E r \in Reqs : Commits(r))
          /\ \A r \in Reqs : (Commits(r) => committed' = View(committed, req[r].tx))
        ]_vars

\* A session created tasks and ended without a commit: the table is empty.
C7_Witness ==
    /\ \A r \in Reqs : req[r].phase = "idle"
    /\ seq = 2 /\ committed = {} /\ gone = {}

\* C8: the commit of a DELETE answered 204 removes exactly the task of that
\* id from the table (one task fewer, every other as it was), and from then
\* on GET and DELETE of that id answer 404.
C8_DeleteThenGone ==
    /\ [](\A id \in gone :
            /\ id \notin Ids(committed)
            /\ \A r \in Reqs : Ready(r) =>
                  /\ NotFound(get_task(committed, req[r].tx, id), id)
                  /\ NotFound(delete_task(committed, req[r].tx, id), id))
    /\ [][\A r \in Reqs : (Commits(r) /\ req[r].kind = "DELETE") =>
            /\ req[r].status = 204
            /\ req[r].id \in Ids(committed)
            /\ committed' = {x \in committed : x.id # req[r].id}
            /\ Cardinality(committed') = Cardinality(committed) - 1
        ]_vars

\* A second DELETE of a deleted task has been answered 404.
C8_Witness ==
    \E r \in Reqs :
        /\ req[r].phase = "respond" /\ req[r].kind = "DELETE"
        /\ req[r].status = 404 /\ req[r].id \in gone

\* C9: for an id no stored task has, get returns None, update returns None
\* whatever the data, delete returns False; none of them raises and each
\* leaves the transaction, hence storage, as it was.
C9_Sentinels ==
    [](\A r \in Reqs : InSession(r) =>
           \A id \in Absent(r) :
               /\ LET res == repo_get(committed, req[r].tx, id)
                  IN res.ret = None /\ ~res.raised /\ res.tx = req[r].tx
               /\ \A data \in Bodies :
                     LET res == repo_update(committed, req[r].tx, id, data, now)
                     IN res.ret = None /\ ~res.raised /\ res.tx = req[r].tx
               /\ LET res == repo_delete(committed, req[r].tx, id)
                  IN ~res.ok /\ ~res.raised /\ res.tx = req[r].tx)

\* A direct caller updated an id never handed out and its session goes on.
C9_Witness ==
    \E r \in Reqs :
        /\ req[r].phase = "repo" /\ req[r].kind = "update"
        /\ seq = 0 /\ req[r].tx = EmptyTx

\* A title a stored task may have.
StoredTitleOK(x) == x.title # None /\ TitleOK(x.title[1])

\* C10: every stored task has a title of 1 to 200 characters; a POST with an
\* empty title answers 422 and calls nothing; whatever body a PATCH carries,
\* an empty or a null title included, the rows it leaves have such a title.
C10_TitleNeverEmpty ==
    /\ \A x \in AllRows : StoredTitleOK(x)
    /\ \A r \in Reqs : Ready(r) =>
          \A b \in Bodies :
              /\ ("title" \in DOMAIN b /\ b["title"] = Some("")) =>
                    LET out == create_task(committed, req[r].tx, b, seq + 1, now)
                    IN out.status = 422 /\ out.nops = 0 /\ out.tx = req[r].tx /\ ~out.commit
              /\ \A id \in TaskIds :
                    LET out == update_task(committed, req[r].tx, id, b, now)
                    IN /\ \A x \in View(committed, out.tx) : StoredTitleOK(x)
                       /\ ("title" \in DOMAIN b /\ b["title"] \in {None, Some("")}) =>
                             out.status # 200 /\ ~out.commit

\* A PATCH of a stored task with a null title failed and the task is intact.
C10_Witness ==
    \E r \in Reqs :
        /\ req[r].phase = "respond" /\ req[r].kind = "PATCH" /\ req[r].status = 500
        /\ \E x \in committed : x.id = req[r].id /\ StoredTitleOK(x)

\* The step in which caller r's PATCH was answered 200.
Patched(r) ==
    /\ req[r].phase = "ready" /\ req'[r].phase = "commit"
    /\ req'[r].kind = "PATCH" /\ req'[r].status = 200

\* The step in which caller r's update returned, to a direct caller or to
\* the handler of a PATCH.
Updated(r) ==
    \/ req[r].phase = "repo" /\ req'[r].phase = "repo"
          /\ req'[r].kind = "update" /\ calls' # calls
    \/ Patched(r)

\* C11: every successful update of a task gives it an updated_at strictly
\* greater than the one it had: for every update the repository can run now,
\* and in every step in which a PATCH is answered 200.
C11_UpdatedAtStrictlyIncreases ==
    /\ [](\A r \in Reqs : InSession(r) =>
            \A id \in Ids(Seen(r)) : \A data \in UpdateData :
                LET res == repo_update(committed, req[r].tx, id, data, now)
                    old == RowOf(Seen(r), id)
                IN (res.ret # None /\ old.updated_at # None) =>
                       res.ret[1].updated_at[1] > old.updated_at[1])
    /\ [][\A r \in Reqs : Patched(r) =>
            LET old == RowOf(Seen(r), req'[r].id)
                new == RowOf(View(committed', req'[r].tx), req'[r].id)
            IN old.updated_at # None => new.updated_at[1] > old.updated_at[1]
        ]_vars

\* A task was updated and the clock still reads what its updated_at holds.
C11_Witness ==
    \E r \in Reqs : req[r].phase = "ready" /\
        \E x \in Seen(r) : x.touched /\ x.updated_at = Some(now)

\* No two rows of `rows` have the same id.
UniqueIds(rows) == \A x, y \in rows : x.id = y.id => x = y

\* C12: no two stored tasks share an id, in the table or in what a session
\* sees; create gives an id no stored task holds; an update with validated
\* fields, through the repository or through PATCH, returns and stores the
\* task under the id it had; and a task of the table stays in it under its
\* id, with its created_at, until the commit of a DELETE of that id.
C12_IdUniqueAndStable ==
    /\ [](/\ UniqueIds(committed)
          /\ \A r \in Reqs :
               /\ UniqueIds(Seen(r))
               /\ InSession(r) =>
                    /\ \A data \in CreateData :
                         LET res == repo_create(committed, req[r].tx, data, seq + 1, now)
                         IN /\ res.ret[1].id \notin Ids(Seen(r)) \cup Ids(committed)
                            /\ UniqueIds(View(committed, res.tx))
                    /\ Ready(r) =>
                         \A id \in Ids(Seen(r)) : \A data \in UpdateData :
                             LET res == repo_update(committed, req[r].tx, id, data, now)
                             IN ~res.raised =>
                                  /\ res.ret[1].id = id
                                  /\ Ids(View(committed, res.tx)) = Ids(Seen(r))
                                  /\ update_task(committed, req[r].tx, id, data, now).body[1].id = id)
    /\ [][/\ \A x \in committed :
               \/ \E y \in committed' : y.id = x.id /\ y.created_at = x.created_at
               \/ \E r \in Reqs : Commits(r) /\ req[r].kind = "DELETE" /\ req[r].id = x.id
          /\ \A r \in Reqs : Updated(r) =>
               /\ Ids(View(committed', req'[r].tx)) = Ids(Seen(r))
               /\ \A x \in Seen(r) : \E y \in View(committed', req'[r].tx) :
                      y.id = x.id /\ y.created_at = x.created_at
        ]_vars

\* Two tasks are in the table, the older one updated since the newer was made.
C12_Witness ==
    /\ Cardinality(committed) = 2
    /\ \E x, y \in committed :
          /\ x.id < y.id /\ x.touched /\ ~y.touched
          /\ x.updated_at # None /\ x.updated_at[1] >= y.created_at

\* C13: for every valid Create payload, the POST answered 201, once
\* committed, followed by a GET of the returned id in a session of its own,
\* gives 200 with the payload's title, description and completed (null and
\* false when omitted) and the id and created_at of the create response.
C13_CreateThenGet ==
    [](\A r \in Reqs : Ready(r) =>
           \A b \in Bodies : TaskCreateValid(b) =>
               LET post == create_task(committed, req[r].tx, b, seq + 1, now)
                   table == SessionCommit(committed, post.tx)
                   read == get_task(table, EmptyTx, post.body[1].id)
               IN /\ post.status = 201 /\ post.commit
                  /\ read.status = 200
                  /\ read.body[1].title = b["title"]
                  /\ read.body[1].description =
                        (IF "description" \in DOMAIN b THEN b["description"] ELSE None)
                  /\ read.body[1].completed =
                        (IF "completed" \in DOMAIN b THEN b["completed"] ELSE Some(FALSE))
                  /\ read.body[1].id = post.body[1].id
                  /\ read.body[1].created_at = post.body[1].created_at
                  /\ read.body = post.body)

\* The task a POST just created has been read by the next request.
C13_Witness ==
    \E r \in Reqs :
        /\ req[r].phase = "respond" /\ req[r].kind = "GET" /\ req[r].status = 200
        /\ req[r].id = seq /\ calls = 2 /\ Cardinality(committed) = 1 /\ req[r].nbody = 1

\* ---------------------------------------------------- a table in use
\* The table after many POSTs: sizes around the default limit.
Stored == {0, 1, DefaultLimit - 1, DefaultLimit, DefaultLimit + 1}

\* What each of those POSTs sent.
SeedData ==
    CHOOSE d \in CreateData :
        d["title"] = Some("a") /\ d["description"] = None /\ d["completed"] = Some(FALSE)

\* The rows n POSTs left, ids 1..n.
Seeded(n) == {NewTask(SeedData, id, 0) : id \in 1..n}

InitSeeded ==
    /\ committed \in {Seeded(n) : n \in Stored}
    /\ seq = Cardinality(committed)
    /\ now = 0
    /\ calls = 0
    /\ gone = {}
    /\ req = [r \in Reqs |-> Idle]
    /\ sessions = {}
    /\ env = [DATABASE_URL |-> Some(DeployUrl), DB_URL |-> None]
    /\ engine = init_db(env, None).engine
    /\ app = "up"

\* Query parameters a client sends to GET /tasks/: limit omitted (the
\* default), below it and above it.
PageSkips == {0, 1}
PageLimits == {0, DefaultLimit - 1, DefaultLimit, DefaultLimit + 1}

Listing(r) ==
    /\ req[r].phase = "ready"
    /\ \E skip \in PageSkips, limit \in PageLimits : ListTasks(r, skip, limit)

NextSeeded ==
    \/ Tick
    \/ \E r \in Callers :
          \/ BeginRequest(r)
          \/ Listing(r)
          \/ EndRequest(r)

SpecSeeded == InitSeeded /\ [][NextSeeded]_vars

\* C14: whatever limit a GET /tasks/ carries, the list it answers with has
\* at most 100 tasks.
C14_AtMostDefaultLimit ==
    \A r \in Reqs :
        (req[r].phase = "respond" /\ req[r].kind = "LIST") => req[r].nbody <= DefaultLimit

\* A listing with the limit left out has answered with 100 of 101 tasks.
C14_Witness ==
    \E r \in Reqs :
        /\ req[r].phase = "respond" /\ req[r].kind = "LIST"
        /\ req[r].nbody = DefaultLimit /\ Cardinality(committed) = DefaultLimit + 1

\* count() in the session after an operation left transaction tx.
CountAfter(tx) == repo_count(committed, tx).num

\* C15: count() is the number of tasks the session sees now: 0 for an empty
\* table, one more after each create, one fewer after each delete that
\* returns True, and the same after an update, found or not, and after a
\* delete or a get that finds nothing; count itself changes nothing.
C15_CountIsStored ==
    /\ [](\A r \in Reqs : InSession(r) =>
           LET n == CountAfter(req[r].tx)
           IN /\ n = Cardinality(Seen(r))
              /\ (Seen(r) = {} => n = 0)
              /\ repo_count(committed, req[r].tx).tx = req[r].tx
              /\ \A data \in CreateData :
                   CountAfter(repo_create(committed, req[r].tx, data, seq + 1, now).tx) = n + 1
              /\ \A id \in TaskIds :
                   LET del == repo_delete(committed, req[r].tx, id)
                   IN /\ CountAfter(del.tx) = (IF del.ok THEN n - 1 ELSE n)
                      /\ del.ok <=> id \in Ids(Seen(r))
                      /\ CountAfter(repo_get(committed, req[r].tx, id).tx) = n
                      /\ Ready(r) =>
                           \A data \in UpdateData :
                               LET upd == repo_update(committed, req[r].tx, id, data, now)
                               IN ~upd.raised => CountAfter(upd.tx) = n)
    /\ [][\A r \in Reqs : Updated(r) =>
            repo_count(committed', req'[r].tx).num = CountAfter(req[r].tx)]_vars

\* A session counted after creating a task and deleting it.
C15_Witness ==
    \E r \in Reqs :
        /\ req[r].phase = "repo" /\ req[r].kind = "count"
        /\ seq = 1 /\ req[r].tx.del = {1} /\ committed = {}

\* The requests of the router, and a caller whose handler has run.
HttpKinds == {"POST", "LIST", "GET", "PATCH", "DELETE"}
Answered(r) == req[r].phase \in {"commit", "respond"} /\ req[r].kind \in HttpKinds

\* The answers after which a handler commits.
Writes(kind, status) ==
    \/ kind = "POST" /\ status = 201
    \/ kind = "PATCH" /\ status = 200
    \/ kind = "DELETE" /\ status = 204

\* What every handler comes to, whatever it is sent.
Outcomes(r) ==
    {<<"POST", create_task(committed, req[r].tx, b, seq + 1, now)>> : b \in Bodies}
    \cup {<<"LIST", list_tasks(committed, req[r].tx, 0, DefaultLimit)>>}
    \cup {<<"GET", get_task(committed, req[r].tx, id)>> : id \in TaskIds}
    \cup {<<"PATCH", update_task(committed, req[r].tx, id, b, now)>> :
              id \in TaskIds, b \in Bodies}
    \cup {<<"DELETE", delete_task(committed, req[r].tx, id)>> : id \in TaskIds}

\* C16 (as amended): every handler calls the repository at most once, and
\* exactly once unless it answers 400 or 422; it commits at most once, and
\* only after answers 201 (POST), 200 (PATCH) or 204 (DELETE), whose
\* repository result was not a sentinel; what it does not commit it leaves as
\* it found it or drops; the table changes only in the commit of such a
\* request, and no step of a request answered 400, 404, 422 or 500, or of a
\* GET, changes it.
C16_OneOperationOneCommit ==
    /\ [](\A r \in Reqs :
            /\ Ready(r) =>
                 \A o \in Outcomes(r) :
                     /\ o[2].nops = (IF o[2].status \in {400, 422} THEN 0 ELSE 1)
                     /\ o[2].commit <=> Writes(o[1], o[2].status)
                     /\ ~o[2].commit => SessionClose(committed, o[2].tx) = committed
            /\ Answered(r) =>
                 /\ req[r].nops = (IF req[r].status \in {400, 422} THEN 0 ELSE 1)
                 /\ req[r].ncommits <= 1
                 /\ (req[r].ncommits = 1 \/ req[r].phase = "commit")
                        <=> Writes(req[r].kind, req[r].status))
    /\ [][/\ committed' # committed =>
               \E r \in Reqs : Commits(r) /\ Writes(req[r].kind, req[r].status)
          /\ \A r \in Reqs :
               (StepOf(r) /\ (Answered(r) \/ Answered(r)')
                   /\ \/ req[r].status \in {400, 404, 422, 500}
                      \/ req'[r].status \in {400, 404, 422, 500}
                      \/ req[r].kind \in {"GET", "LIST"}
                      \/ req'[r].kind \in {"GET", "LIST"})
               => committed' = committed
        ]_vars

\* C16 as stated: every request the endpoint function handled (422 is the
\* framework's answer before it runs) has called the repository exactly once.
C16_ExactlyOneOperation ==
    \A r \in Reqs : (Answered(r) /\ req[r].status # 422) => req[r].nops = 1

\* A DELETE called the repository once, committed once and answered 204.
C16_Witness ==
    \E r \in Reqs :
        /\ req[r].phase = "respond" /\ req[r].kind = "DELETE" /\ req[r].status = 204
        /\ req[r].nops = 1 /\ req[r].ncommits = 1 /\ req[r].id \in gone

\* ------------------------------------------------- concurrent requests
\* What the application does for one request.
Serve(r) ==
    \/ BeginRequest(r)
    \/ RefuseRequest(r)
    \/ Request(r)
    \/ Commit(r)
    \/ EndRequest(r)

\* The application serving the requests of all callers, interleaved, within
\* one reading of the clock.
NextConcurrent ==
    \/ Startup
    \/ \E r \in Reqs : Serve(r)

SpecConcurrent == Init /\ [][NextConcurrent]_vars

\* The callers whose request holds a session now.
Holding == {r \in Reqs : req[r].open}

\* C17: the open sessions are exactly the sessions of the requests in
\* flight, one each and no two the same; the session a request is given is
\* one that was not open; it keeps it until it ends; and when it ends,
\* whatever it was answered, its session is closed and no other.
C17_SessionPerRequest ==
    /\ [](/\ sessions = {req[r].sid : r \in Holding}
          /\ \A r, q \in Holding : req[r].sid = req[q].sid => r = q
          /\ Cardinality(sessions) = Cardinality(Holding)
          /\ \A r \in Reqs :
               /\ req[r].open <=> req[r].phase \in {"ready", "commit", "respond", "repo", "failed"}
                                     /\ req[r].kind # "REFUSED"
               /\ req[r].phase = "idle" => req[r].sid \notin sessions)
    /\ [][\A r \in Reqs :
            /\ (~req[r].open /\ req'[r].open) =>
                  /\ req'[r].sid \notin sessions
                  /\ sessions' = sessions \cup {req'[r].sid}
            /\ (req[r].open /\ req'[r].open) =>
                  /\ req'[r].sid = req[r].sid
                  /\ req[r].sid \in sessions'
            /\ (req[r].open /\ ~req'[r].open) =>
                  /\ req'[r].phase = "idle"
                  /\ sessions' = sessions \ {req[r].sid}
        ]_vars

\* One request was answered 404 and another 500 while both hold sessions.
C17_Witness ==
    \E r, q \in Reqs :
        /\ req[r].phase = "respond" /\ req[r].status = 404
        /\ req[q].phase = "respond" /\ req[q].status = 500 /\ req[q].kind = "PATCH"
        /\ req[r].sid # req[q].sid /\ Cardinality(sessions) = 2

\* The environment with neither variable set.
NoUrlEnv == [DATABASE_URL |-> None, DB_URL |-> None]

\* A request that reached its handler, or is about to.
Dispatched(r) == req[r].kind \in HttpKinds \/ req[r].phase \in {"ready", "commit"}

\* C18: with neither DATABASE_URL nor DB_URL set, init_db raises and leaves
\* the global engine as it was, startup fails and from then on no request
\* is taken; while the engine is None get_engine and get_session raise, and
\* no request reaches a handler or the repository, and nothing is stored,
\* unless init_db has succeeded.
C18_NoServiceWithoutEngine ==
    /\ [](/\ \A eng \in {None, engine, Some(DeployUrl)} :
               LET res == init_db(NoUrlEnv, eng)
               IN res.raised /\ res.engine = eng
          /\ engine = None =>
               /\ get_engine(engine).raised
               /\ get_session(engine, sessions).raised
               /\ get_session(engine, sessions).sessions = sessions
               /\ sessions = {} /\ committed = {} /\ seq = 0 /\ calls = 0
               /\ \A r \in Reqs : ~Dispatched(r) /\ req[r].nops = 0 /\ ~req[r].open
          /\ engine # None =>
               /\ env # NoUrlEnv /\ app = "up"
               /\ engine = init_db(env, None).engine
               /\ ~get_engine(engine).raised
               /\ ~get_session(engine, sessions).raised
          /\ app = "failed" => env = NoUrlEnv /\ engine = None)
    /\ [][/\ (app = "new" /\ app' # "new" /\ env = NoUrlEnv) =>
               app' = "failed" /\ engine' = engine
          /\ app = "failed" =>
               /\ app' = "failed" /\ engine' = engine /\ calls' = calls
               /\ \A r \in Reqs : req'[r] = req[r] \/ req'[r] = Idle
        ]_vars

\* Startup failed for want of a url after a request sent without startup
\* was refused.
C18_Witness ==
    /\ app = "failed" /\ engine = None /\ env = NoUrlEnv
    /\ \E r \in Reqs : req[r].kind = "REFUSED" /\ req[r].status = 500

\* ------------------------------------------------- connection strings
MaxParams == 3     \* query parameters in a connection string

Schemes == {"postgresql://", "postgresql+asyncpg://"}
Authority == "u:p@host/db"

\* A query parameter is its name with "=" and its value.
Params ==
    {<<"sslmode=", "require">>, <<"channel_binding=", "require">>,
     <<"connect_timeout=", "10">>}

\* The parameter lists of up to n parameters.
RECURSIVE ParamLists(_)
ParamLists(n) ==
    IF n = 0 THEN {<<>>}
    ELSE ParamLists(n - 1)
         \cup {Append(ps, p) : ps \in {qs \in ParamLists(n - 1) : Len(qs) = n - 1},
                               p \in Params}

\* The query string of a parameter list: "?" before the first, "&" before
\* each later one.
RECURSIVE Query(_)
Query(ps) ==
    IF ps = <<>> THEN <<>>
    ELSE Query(SubSeq(ps, 1, Len(ps) - 1))
         \o <<IF Len(ps) = 1 THEN "?" ELSE "&", ps[Len(ps)][1], ps[Len(ps)][2]>>

BuildUrl(scheme, ps) == <<scheme, Authority>> \o Query(ps)

Urls == {BuildUrl(scheme, ps) : scheme \in Schemes, ps \in ParamLists(MaxParams)}
ShortUrls == {BuildUrl(scheme, ps) : scheme \in Schemes, ps \in ParamLists(1)}

\* The environments a process may be started in: each variable unset, set
\* to the empty string, or set to a connection string.
ConfigEnvs ==
    {[DATABASE_URL |-> a, DB_URL |-> b] :
        a \in {None, Some(<<>>)} \cup {Some(u) : u \in Urls},
        b \in {None, Some(<<>>)} \cup {Some(u) : u \in ShortUrls}}

InitConfig ==
    /\ committed = {}
    /\ seq = 0
    /\ now = 0
    /\ calls = 0
    /\ gone = {}
    /\ req = [r \in Reqs |-> Idle]
    /\ sessions = {}
    /\ env \in ConfigEnvs
    /\ engine = None
    /\ app = "new"

\* The application is started, and that is all.
NextConfig == Startup

SpecConfig == InitConfig /\ [][NextConfig]_vars

\* The parameters that are to stay, sslmode under its new name.
RECURSIVE Rewritten(_)
Rewritten(ps) ==
    IF ps = <<>> THEN <<>>
    ELSE LET p == ps[Len(ps)]
             front == Rewritten(SubSeq(ps, 1, Len(ps) - 1))
         IN IF p[1] = "channel_binding=" THEN front
            ELSE IF p[1] = "sslmode=" THEN Append(front, <<"ssl=", p[2]>>)
            ELSE Append(front, p)

\* The url the rewriting is to give.
Expected(scheme, ps) ==
    BuildUrl(IF scheme = "postgresql://" THEN "postgresql+asyncpg://" ELSE scheme,
             Rewritten(ps))

\* C19: the engine's url is that of DATABASE_URL when it is set (and not
\* empty) and of DB_URL otherwise, with "postgresql://" replaced by
\* "postgresql+asyncpg://", every sslmode parameter renamed ssl,
\* channel_binding removed, every other parameter kept with its value, and
\* the query string well formed: "?" before the first parameter that
\* remains, "&" before each later one.
C19_UrlRewriting ==
    app = "up" =>
        LET taken == IF Truthy(env.DATABASE_URL) THEN env.DATABASE_URL[1] ELSE env.DB_URL[1]
        IN \A scheme \in Schemes, ps \in ParamLists(MaxParams) :
               taken = BuildUrl(scheme, ps) => engine = Some(Expected(scheme, ps))

\* The deployment's url, channel_binding last, has been rewritten as it should.
C19_Witness ==
    /\ app = "up" /\ env.DATABASE_URL = Some(DeployUrl)
    /\ engine = Some(<<"postgresql+asyncpg://", Authority, "?", "ssl=", "require">>)

====
